---------------------------- MODULE Spec2Model ----------------------------
(***************************************************************************)
(* Model of nu_app: the command-registry bootstrap                         *)
(* (src/create_default_context.rs) and the evaluation pipeline             *)
(* (src/helpers.rs: eval_source and its helpers), driven as main.rs        *)
(* drives them: create_engine_state, create_stack, then eval_source.       *)
(*                                                                         *)
(* The parser, the engine state's merge, block execution and value         *)
(* printing live in the nu_* crates.  They are modelled at the call        *)
(* sites by the effect the harness relies on; every outcome the harness    *)
(* branches on (Ok / Err, value / external stream) is a nondeterministic   *)
(* choice.                                                                 *)
(***************************************************************************)
EXTENDS Integers, Sequences, FiniteSets, TLC

VARIABLES
    env,            \* process environment: current dir, PWD variable, home dir
    target_os,      \* build configuration: cfg(unix) / cfg(windows) / target_os
    feat_plugin,    \* build configuration: feature = "plugin"
    feat_which,     \* build configuration: feature = "which-support"
    pc,             \* position of the single thread of control
    engine_state,   \* EngineState: decls (by DeclId), name -> DeclId, blocks, vars
    working_set,    \* the open StateWorkingSet, or NoWorkingSet
    bind_idx,       \* number of bind_command! registrations already expanded
    delta,          \* the rendered StateDelta awaiting merge_delta, or NoDelta
    stack,          \* Stack: environment variables of the execution scope
    call,           \* arguments of the eval_source call in progress
    block,          \* the Block returned by parse
    pipeline_data,  \* the PipelineData returned by eval_block
    ret,            \* value returned by the eval_source call in progress
    stderr_log,     \* what the function in progress wrote with eprintln!
    trace,          \* calls the function in progress has made, in order
    pre_state,      \* engine_state as it was when the current call began
    evals,          \* number of eval_source calls begun
    first_state     \* the state the first create_default_context call returned

vars == << env, target_os, feat_plugin, feat_which, pc, engine_state, working_set,
           bind_idx, delta, stack, call, block, pipeline_data, ret,
           stderr_log, trace, pre_state, evals, first_state >>

(***************************************************************************)
(* Bounds of the model                                                     *)
(***************************************************************************)
MaxEvals == 2        \* eval_source calls per behaviour
MaxSourceLen == 2    \* statements per source text
MaxFaultPoint == 1   \* distinct early points at which a merge may fault

(***************************************************************************)
(* Small helpers                                                           *)
(***************************************************************************)
Min(a, b) == IF a < b THEN a ELSE b

SeqRange(s) == { s[i] : i \in 1..Len(s) }

Prefix(s, n) == SubSeq(s, 1, Min(n, Len(s)))

\* HashMap::insert: overwrite by key
MapInsert(m, k, v) ==
    [ x \in (DOMAIN m) \cup {k} |-> IF x = k THEN v ELSE m[x] ]

EmptyMap == [ x \in {} |-> 0 ]

\* Option<T>: None is the empty sequence, Some(x) is << x >>
None == << >>

Some(x) == << x >>

Options(S) == { None } \cup { Some(x) : x \in S }

(***************************************************************************)
(* Build configuration                                                     *)
(***************************************************************************)
TargetOS == { "linux", "macos", "android", "freebsd", "windows", "wasi" }

CfgUnix(os) == os \in { "linux", "macos", "android", "freebsd" }

CfgWindows(os) == os = "windows"

CfgPs(os) == os \in { "android", "linux", "macos", "windows" }

(***************************************************************************)
(* The catalog: every bind_command! block, in source order                 *)
(***************************************************************************)
\* bind_command! block "Core" (create_default_context.rs:18-69)
CoreCommands ==
    << "Alias", "Break", "Collect", "Const", "Continue", "Def", "DefEnv",
       "Describe", "Do", "Echo", "ErrorMake", "ExportAlias", "ExportCommand",
       "ExportConst", "ExportDef", "ExportDefEnv", "ExportExtern",
       "ExportExternWrapped", "ExportUse", "ExportModule", "Extern",
       "ExternWrapped", "For", "Hide", "HideEnv", "If", "Ignore", "Overlay",
       "OverlayUse", "OverlayList", "OverlayNew", "OverlayHide", "LazyMake",
       "Let", "Loop", "Match", "Module", "Mut", "Return", "Scope",
       "ScopeAliases", "ScopeCommands", "ScopeEngineStats", "ScopeExterns",
       "ScopeModules", "ScopeVariables", "Try", "Use", "Version", "While" >>

\* bind_command! block "Charts" (create_default_context.rs:75-77)
ChartsCommands ==
    << "Histogram" >>

\* bind_command! block "Filters" (create_default_context.rs:80-139)
FiltersCommands ==
    << "All", "Any", "Append", "Columns", "Compact", "Default", "Drop",
       "DropColumn", "DropNth", "Each", "Empty", "Enumerate", "Every",
       "Filter", "Find", "First", "Flatten", "Get", "Group", "GroupBy",
       "Headers", "Insert", "Items", "Join", "SplitBy", "Take", "Merge",
       "Move", "TakeWhile", "TakeUntil", "Last", "Length", "Lines",
       "ParEach", "Prepend", "Range", "Reduce", "Reject", "Rename",
       "Reverse", "Select", "Shuffle", "Skip", "SkipUntil", "SkipWhile",
       "Sort", "SortBy", "SplitList", "Transpose", "Uniq", "UniqBy",
       "Upsert", "Update", "Values", "Where", "Window", "Wrap", "Zip" >>

\* bind_command! block "Misc" (create_default_context.rs:142-145)
MiscCommands ==
    << "Source", "Tutor" >>

\* bind_command! block "Path" (create_default_context.rs:148-159)
PathCommands ==
    << "Path", "PathBasename", "PathDirname", "PathExists", "PathExpand",
       "PathJoin", "PathParse", "PathRelativeTo", "PathSplit", "PathType" >>

\* bind_command! block "System" (create_default_context.rs:162-167)
SystemCommands ==
    << "Complete", "External", "NuCheck", "Sys" >>

\* bind_command! block "Help" (create_default_context.rs:170-178)
HelpCommands ==
    << "Help", "HelpAliases", "HelpExterns", "HelpCommands", "HelpModules",
       "HelpOperators", "HelpEscapes" >>

\* bind_command! block "Debug" (create_default_context.rs:181-194)
DebugCommands ==
    << "Ast", "Debug", "DebugInfo", "Explain", "Inspect", "Metadata",
       "Profile", "TimeIt", "View", "ViewFiles", "ViewSource", "ViewSpan" >>

\* bind_command! block "Strings" (create_default_context.rs:214-247)
StringsCommands ==
    << "Char", "Decode", "Encode", "DecodeBase64", "EncodeBase64",
       "DetectColumns", "Parse", "Size", "Split", "SplitChars",
       "SplitColumn", "SplitRow", "SplitWords", "Str", "StrCapitalize",
       "StrContains", "StrDistance", "StrDowncase", "StrEndswith",
       "StrExpand", "StrJoin", "StrReplace", "StrIndexOf", "StrLength",
       "StrReverse", "StrStartsWith", "StrSubstring", "StrTrim", "StrUpcase",
       "FormatDate", "FormatDuration", "FormatFilesize" >>

\* bind_command! block "FileSystem" (create_default_context.rs:250-264)
FileSystemCommands ==
    << "Cd", "Ls", "Mkdir", "Mv", "Cp", "UCp", "Open", "Start", "Rm", "Save",
       "Touch", "Glob", "Watch" >>

\* bind_command! block "Platform" (create_default_context.rs:267-278)
PlatformCommands ==
    << "Ansi", "AnsiStrip", "Clear", "Du", "Input", "InputList",
       "InputListen", "Kill", "Sleep", "TermSize" >>

\* bind_command! block "Date" (create_default_context.rs:281-289)
DateCommands ==
    << "Date", "DateHumanize", "DateListTimezones", "DateNow",
       "DateToRecord", "DateToTable", "DateToTimezone" >>

\* bind_command! block "Shells" (create_default_context.rs:292-294)
ShellsCommands ==
    << "Exit" >>

\* bind_command! block "Formats" (create_default_context.rs:297-323)
FormatsCommands ==
    << "From", "FromCsv", "FromJson", "FromNuon", "FromOds", "FromSsv",
       "FromToml", "FromTsv", "FromXlsx", "FromXml", "FromYaml", "FromYml",
       "To", "ToCsv", "ToJson", "ToMd", "ToNuon", "ToText", "ToToml",
       "ToTsv", "Touch", "Upsert", "Where", "ToXml", "ToYaml" >>

\* bind_command! block "Viewers" (create_default_context.rs:326-329)
ViewersCommands ==
    << "Griddle", "Table" >>

\* bind_command! block "Conversions" (create_default_context.rs:332-345)
ConversionsCommands ==
    << "Fill", "Into", "IntoBool", "IntoBinary", "IntoDatetime",
       "IntoDuration", "IntoFloat", "IntoFilesize", "IntoInt", "IntoRecord",
       "IntoString", "IntoValue" >>

\* bind_command! block "Env" (create_default_context.rs:348-357)
EnvCommands ==
    << "ExportEnv", "LoadEnv", "SourceEnv", "WithEnv", "ConfigNu",
       "ConfigEnv", "ConfigMeta", "ConfigReset" >>

\* bind_command! block "Math" (create_default_context.rs:360-377)
MathCommands ==
    << "Math", "MathAbs", "MathAvg", "MathCeil", "MathFloor", "MathMax",
       "MathMedian", "MathMin", "MathMode", "MathProduct", "MathRound",
       "MathSqrt", "MathStddev", "MathSum", "MathVariance", "MathLog" >>

\* bind_command! block "Bytes" (create_default_context.rs:380-393)
BytesCommands ==
    << "Bytes", "BytesLen", "BytesStartsWith", "BytesEndsWith",
       "BytesReverse", "BytesReplace", "BytesAdd", "BytesAt", "BytesIndexOf",
       "BytesCollect", "BytesRemove", "BytesBuild" >>

\* bind_command! block "Network" (create_default_context.rs:396-412)
NetworkCommands ==
    << "Http", "HttpDelete", "HttpGet", "HttpHead", "HttpPatch", "HttpPost",
       "HttpPut", "HttpOptions", "Url", "UrlBuildQuery", "UrlDecode",
       "UrlEncode", "UrlJoin", "UrlParse", "Port" >>

\* bind_command! block "Random" (create_default_context.rs:415-424)
RandomCommands ==
    << "Random", "RandomBool", "RandomChars", "RandomDice", "RandomFloat",
       "RandomInt", "RandomInteger", "RandomUuid" >>

\* bind_command! block "Generators" (create_default_context.rs:427-433)
GeneratorsCommands ==
    << "Cal", "Seq", "SeqDate", "SeqChar", "Unfold" >>

\* bind_command! block "Hash" (create_default_context.rs:436-440)
HashCommands ==
    << "Hash", "HashMd5", "HashSha256" >>

\* bind_command! block "Experimental" (create_default_context.rs:443-445)
ExperimentalCommands ==
    << "IsAdmin" >>

\* bind_command! block "Removed" (create_default_context.rs:448-451)
RemovedCommands ==
    << "LetEnv", "DateFormat" >>

\* variant: the cfg attribute is lost and the registration always happens
GatedAlways(cond, command) == << command >>

\* a registration compiled in only when its #[cfg(..)] holds
Gated(cond, command) == IF cond THEN << command >> ELSE << >>

\* the sequence of add_decl calls create_default_context performs
Catalog(os, plugin, which) ==
       CoreCommands
    \o Gated(plugin, "Register")
    \o ChartsCommands
    \o FiltersCommands
    \o MiscCommands
    \o PathCommands
    \o SystemCommands
    \o HelpCommands
    \o DebugCommands
    \o Gated(CfgUnix(os), "Exec")
    \o Gated(CfgWindows(os), "RegistryQuery")
    \o Gated(CfgPs(os), "Ps")
    \o Gated(which, "Which")
    \o StringsCommands
    \o FileSystemCommands
    \o PlatformCommands
    \o DateCommands
    \o ShellsCommands
    \o FormatsCommands
    \o ViewersCommands
    \o ConversionsCommands
    \o EnvCommands
    \o MathCommands
    \o BytesCommands
    \o NetworkCommands
    \o RandomCommands
    \o GeneratorsCommands
    \o HashCommands
    \o ExperimentalCommands
    \o RemovedCommands

(***************************************************************************)
(* EngineState, StateWorkingSet and StateDelta (nu_protocol::engine), as   *)
(* used at the call sites.  A DeclId is the 0-based index into decls.      *)
(***************************************************************************)
NoWorkingSet == [ open |-> FALSE ]

NoDelta == [ rendered |-> FALSE ]

NoState == [ present |-> FALSE ]

\* EngineState::new(): no commands, no user blocks, no user variables
EngineStateNew ==
    [ decls |-> << >>, declmap |-> EmptyMap, blocks |-> << >>, vars |-> << >> ]

\* StateWorkingSet::new(&engine_state): an empty delta over a borrowed state
StateWorkingSetNew(es) ==
    [ open            |-> TRUE,
      permanent_state |-> es,
      decls           |-> << >>,
      declmap         |-> EmptyMap,
      blocks          |-> << >>,
      vars            |-> << >>,
      parse_errors    |-> << >> ]

\* StateWorkingSet::num_decls
num_decls(ws) == Len(ws.permanent_state.decls) + Len(ws.decls)

\* variant: a name that is already bound keeps its first declaration
add_decl_keeps_first(ws, command) ==
    [ ws EXCEPT !.decls   = Append(ws.decls, command),
                !.declmap = IF command \in DOMAIN ws.declmap THEN ws.declmap
                            ELSE MapInsert(ws.declmap, command,
                                           num_decls(ws)) ]

\* working_set.add_decl(Box::new($command)): push the declaration, give it
\* the next DeclId and bind its name to that id, overwriting by name
add_decl(ws, command) ==
    [ ws EXCEPT !.decls   = Append(ws.decls, command),
                !.declmap = MapInsert(ws.declmap, command, num_decls(ws)) ]

\* variant: a process-wide guard registers each command once per process,
\* so a later bootstrap skips what an earlier one registered
bind_command_once(ws, command) ==
    IF first_state.present /\ command \in DOMAIN first_state.state.declmap
    THEN ws
    ELSE add_decl(ws, command)

\* the body of the bind_command! macro for one $command
bind_command(ws, command) == add_decl(ws, command)

\* working_set.render(): the delta, detached from the borrowed state
render(ws) ==
    [ rendered |-> TRUE,
      decls    |-> ws.decls,
      declmap  |-> ws.declmap,
      blocks   |-> ws.blocks,
      vars     |-> ws.vars ]

\* name resolution in the permanent state
HasDecl(es, name) == name \in DOMAIN es.declmap

find_decl(es, name) == es.declmap[name]

get_decl(es, decl_id) == es.decls[decl_id + 1]

\* name resolution while parsing: the working set's own additions first,
\* then the permanent state it was opened against
WsHasDecl(ws, name) ==
    name \in DOMAIN ws.declmap \/ HasDecl(ws.permanent_state, name)

ws_find_decl(ws, name) ==
    IF name \in DOMAIN ws.declmap THEN ws.declmap[name]
    ELSE find_decl(ws.permanent_state, name)

\* the names bound in a state
DeclNames(es) == DOMAIN es.declmap

(***************************************************************************)
(* engine_state.merge_delta(delta).  Without a fault it is Ok(()): the     *)
(* permanent state is extended by the whole delta and its name bindings    *)
(* overwrite the existing ones.  A fault is Err(..); the call sites cannot *)
(* tell how much was committed before it, so the outcome carries the       *)
(* number of registrations (in order) that were.                           *)
(***************************************************************************)
FaultPoints(d) ==
    (0 .. Min(MaxFaultPoint, Len(d.decls))) \cup { Len(d.decls) }

MergeOutcomes(d) ==
       { [ fault |-> FALSE, committed |-> Len(d.decls) ] }
  \cup { [ fault |-> TRUE, committed |-> k ] : k \in FaultPoints(d) }

\* the first k registrations of the delta, committed
Commit(es, d, k) ==
    LET base  == Len(es.decls)
        names == { n \in DOMAIN d.declmap : d.declmap[n] < base + k }
    IN  [ decls   |-> es.decls \o Prefix(d.decls, k),
          declmap |-> [ n \in (DOMAIN es.declmap) \cup names |->
                          IF n \in names THEN d.declmap[n]
                          ELSE es.declmap[n] ],
          blocks  |-> IF k = Len(d.decls) THEN es.blocks \o d.blocks
                      ELSE es.blocks,
          vars    |-> IF k = Len(d.decls) THEN es.vars \o d.vars
                      ELSE es.vars ]

\* variant: the merged state holds the delta alone
merge_delta_replaces(es, d, outcome) ==
    [ ok |-> ~outcome.fault,
      state |-> Commit(EngineStateNew, d, outcome.committed) ]

\* engine_state.merge_delta(delta): Ok after the whole delta is committed,
\* or Err after a part of it
merge_delta(es, d, outcome) ==
    [ ok |-> ~outcome.fault, state |-> Commit(es, d, outcome.committed) ]

(***************************************************************************)
(* Stack (nu_protocol::engine::Stack): the environment variables           *)
(***************************************************************************)
\* stack.add_env_var(name, value)
add_env_var(st, name, value) == MapInsert(st, name, value)

\* set_last_exit_code(stack, exit_code)
set_last_exit_code(st, exit_code) ==
    add_env_var(st, "LAST_EXIT_CODE", exit_code)

HasEnv(st, name) == name \in DOMAIN st

(***************************************************************************)
(* trace: the fallible or effectful calls the function in progress has     *)
(* made, in order, each with whether it succeeded                          *)
(***************************************************************************)
Did(fn) == [ fn |-> fn, ok |-> TRUE ]

Failed(fn) == [ fn |-> fn, ok |-> FALSE ]

\* whether a write to the process's stderr succeeds (it fails on a full
\* device or on a pipe whose reader is gone)
StderrWrites == BOOLEAN

\* eprintln!(..): the line is written to stderr, or the macro panics
\* ("failed printing to stderr") when the write fails
eprintln(log, error, write_ok) ==
    [ panicked |-> ~write_ok,
      log      |-> IF write_ok THEN Append(log, error) ELSE log ]

(***************************************************************************)
(* create_default_context                                                  *)
(***************************************************************************)
TheCatalog == Catalog(target_os, feat_plugin, feat_which)

\* let mut engine_state = EngineState::new();
\* let mut working_set = StateWorkingSet::new(&engine_state);
BootNew ==
    /\ pc = "boot_new"
    /\ engine_state' = EngineStateNew
    /\ working_set' = StateWorkingSetNew(engine_state')
    /\ bind_idx' = 0
    /\ trace' = << >>
    /\ pc' = "boot_bind"
    /\ UNCHANGED << env, target_os, feat_plugin, feat_which, delta, stack, call,
                    block, pipeline_data, ret, stderr_log, pre_state, evals,
                    first_state >>

\* variant: a registration is written into the engine state as well
BootBindDirect ==
    /\ pc = "boot_bind"
    /\ bind_idx < Len(TheCatalog)
    /\ working_set' = bind_command(working_set, TheCatalog[bind_idx + 1])
    /\ engine_state' = [ engine_state EXCEPT
                           !.decls = Append(@, TheCatalog[bind_idx + 1]) ]
    /\ bind_idx' = bind_idx + 1
    /\ UNCHANGED << env, target_os, feat_plugin, feat_which, pc, delta, stack,
                    call, block, pipeline_data, ret, stderr_log, trace,
                    pre_state, evals, first_state >>

\* one expansion of bind_command!: working_set.add_decl(Box::new($command))
BootBind ==
    /\ pc = "boot_bind"
    /\ bind_idx < Len(TheCatalog)
    /\ working_set' = bind_command(working_set, TheCatalog[bind_idx + 1])
    /\ bind_idx' = bind_idx + 1
    /\ UNCHANGED << env, target_os, feat_plugin, feat_which, pc, engine_state,
                    delta, stack, call, block, pipeline_data, ret,
                    stderr_log, trace, pre_state, evals, first_state >>

\* working_set.render(), closing the block that borrowed engine_state
BootRender ==
    /\ pc = "boot_bind"
    /\ bind_idx = Len(TheCatalog)
    /\ delta' = render(working_set)
    /\ working_set' = NoWorkingSet
    /\ pc' = "boot_merge"
    /\ UNCHANGED << env, target_os, feat_plugin, feat_which, engine_state,
                    bind_idx, stack, call, block, pipeline_data, ret,
                    stderr_log, trace, pre_state, evals, first_state >>

\* the Err arm of the bootstrap's merge only prints: there is no return
\* in it, control always reaches the final `engine_state`
boot_merge_aborts(r) == FALSE

\* if let Err(err) = engine_state.merge_delta(delta) { eprintln!(..) }
\* engine_state
BootMerge ==
    /\ pc = "boot_merge"
    /\ \E outcome \in MergeOutcomes(delta), write_ok \in StderrWrites :
          LET r == merge_delta(engine_state, delta, outcome)
              merged == [ fn |-> "merge_delta", ok |-> r.ok ]
              out == eprintln(stderr_log, [ kind |-> "BootMergeFault" ],
                              write_ok)
          IN  /\ engine_state' = r.state
              /\ first_state' =
                    IF first_state.present \/ (~r.ok /\ out.panicked)
                    THEN first_state
                    ELSE [ present |-> TRUE, state |-> r.state, ok |-> r.ok,
                           again |-> FALSE, evolved |-> NoState ]
              /\ IF r.ok
                 THEN /\ trace' = << merged >>
                      /\ pc' = "boot_done"
                      /\ UNCHANGED stderr_log
                 ELSE IF out.panicked
                 THEN /\ trace' = << merged, Failed("eprintln") >>
                      /\ pc' = "panicked"
                      /\ UNCHANGED stderr_log
                 ELSE /\ stderr_log' = out.log
                      /\ trace' = << merged >>
                      /\ pc' = IF boot_merge_aborts(r) THEN "boot_failed"
                               ELSE "boot_done"
    /\ delta' = NoDelta
    /\ UNCHANGED << env, target_os, feat_plugin, feat_which, working_set, bind_idx,
                    stack, call, block, pipeline_data, ret, pre_state,
                    evals >>

(***************************************************************************)
(* create_stack and get_init_cwd                                           *)
(***************************************************************************)
\* An OsString / PathBuf is a sequence of units; InvalidUnit stands for bytes
\* that are not valid Unicode
InvalidUnit == "\\xFF"

ReplacementChar == "U+FFFD"

is_unicode(os_string) ==
    \A i \in 1..Len(os_string) : os_string[i] # InvalidUnit

\* path.to_string_lossy().to_string(): invalid units become U+FFFD
to_string_lossy(path) ==
    [ i \in 1..Len(path) |->
        IF path[i] = InvalidUnit THEN ReplacementChar ELSE path[i] ]

\* std::env::current_dir(): Ok(path), or Err when it cannot be queried
current_dir(e) == e.current_dir

\* std::env::var("PWD"): Ok(value) only when the variable is set and is
\* valid Unicode, Err(NotPresent) or Err(NotUnicode) otherwise
env_var_pwd(e) ==
    IF e.pwd_var # None /\ is_unicode(e.pwd_var[1]) THEN e.pwd_var ELSE None

\* nu_path::home_dir()
home_dir(e) == e.home_dir

\* PathBuf::default(): the empty path
EmptyPath == << >>

\* std::env::current_dir().unwrap_or_else(|_| std::env::var("PWD")
\*     .map(Into::into)
\*     .unwrap_or_else(|_| nu_path::home_dir().unwrap_or_default()))
get_init_cwd(e) ==
    IF current_dir(e) # None THEN current_dir(e)[1]
    ELSE IF env_var_pwd(e) # None THEN env_var_pwd(e)[1]
    ELSE IF home_dir(e) # None THEN home_dir(e)[1]
    ELSE EmptyPath

\* Stack::new()
StackNew == EmptyMap

\* what the process environment may answer: each source missing, a plain
\* path, or a path that is not valid Unicode
CurrentDirs == Options({ << "/", "work" >>, << "/", "work", InvalidUnit >> })

PwdVars == Options({ << "/", "env" >>, << "/", "env", InvalidUnit >> })

HomeDirs == Options({ << "/", "home" >>, << "/", "home", InvalidUnit >> })

Envs ==
    { [ current_dir |-> c, pwd_var |-> v, home_dir |-> h ] :
        c \in CurrentDirs, v \in PwdVars, h \in HomeDirs }

\* the environment the evaluation pipeline is explored under
PipelineEnvs ==
    { [ current_dir |-> Some(<< "/", "work" >>),
        pwd_var     |-> Some(<< "/", "env" >>),
        home_dir    |-> Some(<< "/", "home" >>) ] }

\* create_stack: a fresh stack whose PWD is get_init_cwd(), as a string
CreateStack ==
    /\ pc = "boot_done"
    /\ stack' = add_env_var(StackNew, "PWD", to_string_lossy(get_init_cwd(env)))
    /\ pc' = "idle"
    /\ UNCHANGED << env, target_os, feat_plugin, feat_which, engine_state,
                    working_set, bind_idx, delta, call, block, pipeline_data,
                    ret, stderr_log, trace, pre_state, evals, first_state >>

(***************************************************************************)
(* Source text and the parser (nu_parser::parse) as eval_source uses it.   *)
(* A source is a sequence of statements:                                   *)
(*   def <name>   declares a command (needs the Def built-in in scope)     *)
(*   call <name>  calls <name>: a known declaration resolves to its        *)
(*                DeclId, an unknown name becomes an external call         *)
(*   bad          text the grammar rejects                                 *)
(***************************************************************************)
UserCommands == { "greet" }

CallTargets == { "greet", "Where" }

Statements ==
       { [ op |-> "def",  name |-> n ] : n \in UserCommands }
  \cup { [ op |-> "call", name |-> n ] : n \in CallTargets }
  \cup { [ op |-> "bad",  name |-> "" ] }

RECURSIVE SeqsUpTo(_, _)
SeqsUpTo(S, n) ==
    IF n = 0 THEN { << >> }
    ELSE LET shorter == SeqsUpTo(S, n - 1)
         IN  shorter \cup
             { Append(s, x) : s \in { t \in shorter : Len(t) = n - 1 }, x \in S }

Sources == SeqsUpTo(Statements, MaxSourceLen)

\* working_set.add_block: the body of a declared command
add_block(ws, name) == [ ws EXCEPT !.blocks = Append(ws.blocks, name) ]

parse_error(ws, err) ==
    [ ws EXCEPT !.parse_errors = Append(ws.parse_errors, err) ]

\* one statement: the working set after it and the element it compiles to
\* (no element when the statement is rejected)
parse_statement(ws, stmt, pos) ==
    IF stmt.op = "def" THEN
        IF WsHasDecl(ws, "Def")
        THEN [ ws   |-> add_block(add_decl(ws, stmt.name), stmt.name),
               elem |-> << [ kind |-> "call", name |-> "Def",
                             decl_id |-> ws_find_decl(ws, "Def") ] >> ]
        ELSE [ ws   |-> parse_error(ws, [ kind |-> "ParseError",
                                          what |-> "unknown_command",
                                          pos  |-> pos ]),
               elem |-> << >> ]
    ELSE IF stmt.op = "call" THEN
        IF WsHasDecl(ws, stmt.name)
        THEN [ ws   |-> ws,
               elem |-> << [ kind |-> "call", name |-> stmt.name,
                             decl_id |-> ws_find_decl(ws, stmt.name) ] >> ]
        ELSE [ ws   |-> ws,
               elem |-> << [ kind |-> "external", name |-> stmt.name ] >> ]
    ELSE [ ws   |-> parse_error(ws, [ kind |-> "ParseError",
                                      what |-> "unexpected",
                                      pos  |-> pos ]),
           elem |-> << >> ]

\* parse(&mut working_set, Some(fname), source, false): statements left to
\* right, each seeing what the earlier ones added; errors accumulate in
\* working_set.parse_errors and parsing goes on
RECURSIVE parse_from(_, _, _, _)
parse_from(ws, source, pos, out) ==
    IF pos > Len(source) THEN [ ws |-> ws, output |-> out ]
    ELSE LET r == parse_statement(ws, source[pos], pos)
         IN  parse_from(r.ws, source, pos + 1, out \o r.elem)

parse(ws, source) == parse_from(ws, source, 1, << >>)

(***************************************************************************)
(* Block execution (nu_engine) and result printing (nu_protocol), by       *)
(* outcome.                                                                *)
(***************************************************************************)
ExitCodes == { 0, 3 }

NoPipelineData == [ kind |-> "none" ]

\* PipelineData a block may produce; an ExternalStream carries its deferred
\* exit code, or none
PipelineDatas ==
       { [ kind |-> "Value", exit_code |-> None ],
         [ kind |-> "Empty", exit_code |-> None ] }
  \cup { [ kind |-> "ExternalStream", exit_code |-> c ] :
            c \in Options(ExitCodes) }

\* a block can run only if every declaration it calls is in the state
Runnable(es, blk) ==
    \A i \in 1..Len(blk) :
        blk[i].kind = "call" => blk[i].decl_id < Len(es.decls)

\* what running a block may do to the stack's LAST_EXIT_CODE before it
\* returns: nothing, or leave the code of a process it ran
ExecEnvWrites == Options(ExitCodes)

exec_env(st, w) == IF w = None THEN st ELSE set_last_exit_code(st, w[1])

\* eval_block / eval_block_with_early_return: Err(ShellError) or
\* Ok(PipelineData); both leave the engine state alone (&EngineState)
EvalResults ==
    { [ ok |-> FALSE, data |-> NoPipelineData ] }
      \cup { [ ok |-> TRUE, data |-> d ] : d \in PipelineDatas }

eval_block == EvalResults

eval_block_with_early_return == EvalResults

\* a Result<i64, ShellError> of the printing functions
RenderOk(code) == [ ok |-> TRUE, exit_code |-> code ]

RenderErr == [ ok |-> FALSE ]

\* print_if_stream(stream, stderr_stream, false, exit_code): when writing
\* succeeds, Ok(the deferred exit code), Ok(0) when there is none
print_if_stream(pd, io_ok) ==
    IF ~io_ok THEN RenderErr
    ELSE IF pd.exit_code = None THEN RenderOk(0)
    ELSE RenderOk(pd.exit_code[1])

\* pipeline_data.print(engine_state, stack, true, false): when writing
\* succeeds, Ok(0)
print(pd, io_ok) == IF io_ok THEN RenderOk(0) ELSE RenderErr

(***************************************************************************)
(* report_error / report_error_new                                         *)
(***************************************************************************)
\* let _ = nu_utils::enable_vt_processing(): a Result that is discarded
enable_vt_processing(vt_ok) == [ fn |-> "enable_vt_processing", ok |-> vt_ok ]

\* the call exists only under cfg(windows); elsewhere nothing can fail
VtOutcomes(os) == IF CfgWindows(os) THEN BOOLEAN ELSE { TRUE }

\* the calls report_error makes: it prints, and on Windows it re-enables
\* virtual-terminal processing
report_error_calls(os, vt_ok) ==
    IF CfgWindows(os)
    THEN << Did("report_error"), enable_vt_processing(vt_ok) >>
    ELSE << Did("report_error") >>

\* report_error(&working_set, &err) and the `return false` after it: the
\* diagnostic is written, the hook runs under cfg(windows) and false is
\* returned, or eprintln! panics and the call returns nothing
report_error(log, error, os, vt_ok, write_ok) ==
    LET out == eprintln(log, error, write_ok)
    IN  IF out.panicked
        THEN [ log |-> out.log, calls |-> << Failed("report_error") >>,
               ret |-> "pending", pc |-> "panicked" ]
        ELSE [ log |-> out.log, calls |-> report_error_calls(os, vt_ok),
               ret |-> "false", pc |-> "eval_done" ]

\* the cfg(windows) block that closes the Ok arm of eval_source calls
\* enable_vt_processing unqualified, a name helpers.rs never brings into
\* scope: with cfg(windows) on rustc rejects the crate (E0425) and there is
\* no program; on every other target the block is compiled out
Compiles(os) == ~CfgWindows(os)

\* variant: the last parse error is the one reported
first_is_last(errors) == errors[Len(errors)]

\* working_set.parse_errors.first()
first(errors) == Head(errors)

\* if let Some(err) = working_set.parse_errors.first()
parse_failed(ws) == Len(ws.parse_errors) > 0

\* variant: every result is printed as a value
print_result_as_value(pd, io_ok) == print(pd, io_ok)

\* variant: a non-zero exit code counts as a failed evaluation
render_failed_on_nonzero(result) == ~result.ok \/ result.exit_code # 0

\* match result { Err(err) => .. }
render_failed(result) == ~result.ok

\* lines 89-100: an ExternalStream is drained by print_if_stream, anything
\* else is printed as a value
print_result(pd, io_ok) ==
    IF pd.kind = "ExternalStream" THEN print_if_stream(pd, io_ok)
    ELSE print(pd, io_ok)

printer(pd) ==
    IF pd.kind = "ExternalStream" THEN "print_if_stream" ELSE "print"

(***************************************************************************)
(* eval_source                                                             *)
(***************************************************************************)
NoCall == [ active |-> FALSE ]

\* the caller invokes eval_source(engine_state, stack, source, ..)
EvalCall ==
    /\ pc = "idle"
    /\ evals < MaxEvals
    /\ \E source \in Sources : call' = [ active |-> TRUE, source |-> source ]
    /\ pre_state' = engine_state
    /\ trace' = << >>
    /\ ret' = "pending"
    /\ stderr_log' = << >>
    /\ evals' = evals + 1
    /\ pc' = "eval_parse"
    /\ UNCHANGED << env, target_os, feat_plugin, feat_which, engine_state,
                    working_set, bind_idx, delta, stack, block, pipeline_data,
                    first_state >>

\* lines 58-65: open a working set on the engine state and parse into it
EvalParse ==
    /\ pc = "eval_parse"
    /\ LET parsed == parse(StateWorkingSetNew(engine_state), call.source)
       IN  /\ working_set' = parsed.ws
           /\ block' = parsed.output
    /\ pc' = "eval_parsed"
    /\ UNCHANGED << env, target_os, feat_plugin, feat_which, engine_state,
                    bind_idx, delta, stack, call, pipeline_data, ret,
                    stderr_log, trace, pre_state, evals, first_state >>

\* lines 66-73: a parse error ends the evaluation, otherwise the working
\* set is rendered into the delta; either way the working set is dropped
EvalCheck ==
    /\ pc = "eval_parsed"
    /\ IF parse_failed(working_set)
       THEN \E vt_ok \in VtOutcomes(target_os), write_ok \in StderrWrites :
                LET reported ==
                        report_error(stderr_log,
                                     first(working_set.parse_errors),
                                     target_os, vt_ok, write_ok)
                IN  /\ stack' = set_last_exit_code(stack, 1)
                    /\ stderr_log' = reported.log
                    /\ trace' = trace \o << Failed("parse"),
                                              Did("set_last_exit_code") >>
                                      \o reported.calls
                    /\ ret' = reported.ret
                    /\ pc' = reported.pc
                    /\ UNCHANGED delta
       ELSE /\ delta' = render(working_set)
            /\ trace' = trace \o << Did("parse"), Did("render") >>
            /\ pc' = "eval_merge"
            /\ UNCHANGED << stack, stderr_log, ret >>
    /\ working_set' = NoWorkingSet
    /\ UNCHANGED << env, target_os, feat_plugin, feat_which, engine_state,
                    bind_idx, call, block, pipeline_data, pre_state, evals,
                    first_state >>

\* if let Err(err) = engine_state.merge_delta(delta) { .. return false; }
merge_aborts(r) == ~r.ok

\* variant: the delta is dropped and the block runs against the old state
EvalMergeSkipped ==
    /\ pc = "eval_merge"
    /\ delta' = NoDelta
    /\ trace' = Append(trace, Did("merge_delta"))
    /\ pc' = "eval_exec"
    /\ UNCHANGED << env, target_os, feat_plugin, feat_which, engine_state,
                    working_set, bind_idx, stack, call, block, pipeline_data,
                    ret, stderr_log, pre_state, evals, first_state >>

\* lines 75-79: merge the delta; a fault ends the evaluation
EvalMerge ==
    /\ pc = "eval_merge"
    /\ \E outcome \in MergeOutcomes(delta) :
          LET r == merge_delta(engine_state, delta, outcome)
              merged == [ fn |-> "merge_delta", ok |-> r.ok ]
          IN  /\ engine_state' = r.state
              /\ IF merge_aborts(r)
                 THEN \E vt_ok \in VtOutcomes(target_os),
                         write_ok \in StderrWrites :
                      LET reported ==
                              report_error(stderr_log,
                                           [ kind |-> "MergeFault" ],
                                           target_os, vt_ok, write_ok)
                      IN  /\ stack' = set_last_exit_code(stack, 1)
                          /\ stderr_log' = reported.log
                          /\ trace' = trace \o << merged,
                                                  Did("set_last_exit_code") >>
                                            \o reported.calls
                          /\ ret' = reported.ret
                          /\ pc' = reported.pc
                 ELSE /\ trace' = Append(trace, merged)
                      /\ pc' = "eval_exec"
                      /\ UNCHANGED << stack, stderr_log, ret >>
    /\ delta' = NoDelta
    /\ UNCHANGED << env, target_os, feat_plugin, feat_which, working_set, bind_idx,
                    call, block, pipeline_data, pre_state, evals,
                    first_state >>

\* lines 81-86 and 121-129: run the block; Err(err) ends the evaluation
EvalExec ==
    /\ pc = "eval_exec"
    /\ IF ~Runnable(engine_state, block)
       THEN \* get_decl on a DeclId the state does not hold: the thread panics
            /\ pc' = "panicked"
            /\ UNCHANGED << stack, stderr_log, trace, ret, pipeline_data >>
       ELSE \E allow_return \in BOOLEAN, w \in ExecEnvWrites,
               vt_ok \in VtOutcomes(target_os), write_ok \in StderrWrites :
            \E b \in (IF allow_return THEN eval_block_with_early_return
                      ELSE eval_block) :
              IF b.ok
              THEN /\ pipeline_data' = b.data
                   /\ stack' = exec_env(stack, w)
                   /\ trace' = Append(trace, Did("eval_block"))
                   /\ pc' = "eval_render"
                   /\ UNCHANGED << stderr_log, ret >>
              ELSE LET reported ==
                           report_error(stderr_log, [ kind |-> "EvalError" ],
                                        target_os, vt_ok, write_ok)
                   IN  /\ stack' = set_last_exit_code(exec_env(stack, w), 1)
                       /\ stderr_log' = reported.log
                       /\ trace' = trace \o << Failed("eval_block"),
                                               Did("set_last_exit_code") >>
                                         \o reported.calls
                       /\ ret' = reported.ret
                       /\ pc' = reported.pc
                       /\ UNCHANGED pipeline_data
    /\ UNCHANGED << env, target_os, feat_plugin, feat_which, engine_state,
                    working_set, bind_idx, delta, call, block, pre_state,
                    evals, first_state >>

\* lines 87-120: print the result and record the exit code it resolves to
EvalRender ==
    /\ pc = "eval_render"
    /\ \E io_ok \in BOOLEAN, vt_ok \in VtOutcomes(target_os),
          write_ok \in StderrWrites :
          LET result == print_result(pipeline_data, io_ok)
              printed == [ fn |-> printer(pipeline_data), ok |-> result.ok ]
              reported == report_error(stderr_log, [ kind |-> "RenderError" ],
                                       target_os, vt_ok, write_ok)
          IN  IF ~render_failed(result)
              THEN /\ stack' = set_last_exit_code(stack, result.exit_code)
                   /\ trace' = trace \o << printed, Did("set_last_exit_code") >>
                   /\ ret' = "true"
                   /\ pc' = "eval_done"
                   /\ UNCHANGED stderr_log
              ELSE /\ stderr_log' = reported.log
                   /\ trace' = trace \o << printed >> \o reported.calls
                   /\ ret' = reported.ret
                   /\ pc' = reported.pc
                   /\ UNCHANGED stack
    /\ UNCHANGED << env, target_os, feat_plugin, feat_which, engine_state,
                    working_set, bind_idx, delta, call, block, pipeline_data,
                    pre_state, evals, first_state >>

\* variant: a failed evaluation restores the engine state it started from
EvalReturnRollsBack ==
    /\ pc = "eval_done"
    /\ engine_state' = IF ret = "false" THEN pre_state ELSE engine_state
    /\ ret' = "none"
    /\ call' = NoCall
    /\ block' = << >>
    /\ pipeline_data' = NoPipelineData
    /\ trace' = << >>
    /\ pre_state' = NoState
    /\ pc' = "idle"
    /\ UNCHANGED << env, target_os, feat_plugin, feat_which, working_set,
                    bind_idx, delta, stack, stderr_log, evals, first_state >>

\* eval_source has returned: its locals are dropped and main discards the
\* returned bool; the engine state and the stack live on
EvalReturn ==
    /\ pc = "eval_done"
    /\ ret' = "none"
    /\ call' = NoCall
    /\ block' = << >>
    /\ pipeline_data' = NoPipelineData
    /\ trace' = << >>
    /\ pre_state' = NoState
    /\ pc' = "idle"
    /\ UNCHANGED << env, target_os, feat_plugin, feat_which, engine_state,
                    working_set, bind_idx, delta, stack, stderr_log, evals,
                    first_state >>

(***************************************************************************)
(* Specifications                                                          *)
(***************************************************************************)
\* every build: target x feature = "plugin" x feature = "which-support"
AllBuilds ==
    { [ os |-> os, plugin |-> p, which |-> w ] :
        os \in TargetOS, p \in BOOLEAN, w \in BOOLEAN }

\* the builds the evaluation pipeline is explored under: each platform
\* family once, every cfg gate both on and off
PipelineBuilds ==
    { [ os |-> "linux",   plugin |-> TRUE,  which |-> TRUE  ],
      [ os |-> "freebsd", plugin |-> FALSE, which |-> TRUE  ],
      [ os |-> "windows", plugin |-> TRUE,  which |-> FALSE ],
      [ os |-> "wasi",    plugin |-> FALSE, which |-> FALSE ] }

\* the process at entry to main, built as one of the given builds
Start(builds, envs) ==
    /\ env \in envs
    /\ \E build \in builds :
          /\ target_os = build.os
          /\ feat_plugin = build.plugin
          /\ feat_which = build.which
    /\ pc = (IF Compiles(target_os) THEN "boot_new" ELSE "no_program")
    /\ engine_state = EngineStateNew
    /\ working_set = NoWorkingSet
    /\ bind_idx = 0
    /\ delta = NoDelta
    /\ stack = StackNew
    /\ call = NoCall
    /\ block = << >>
    /\ pipeline_data = NoPipelineData
    /\ ret = "none"
    /\ stderr_log = << >>
    /\ trace = << >>
    /\ pre_state = NoState
    /\ evals = 0
    /\ first_state = NoState

Init == Start(PipelineBuilds, PipelineEnvs)

InitBoot == Start(AllBuilds, PipelineEnvs)

\* main: create_engine_state, create_stack, then eval_source
Next ==
    \/ BootNew
    \/ BootBind
    \/ BootRender
    \/ BootMerge
    \/ CreateStack
    \/ EvalCall
    \/ EvalParse
    \/ EvalCheck
    \/ EvalMerge
    \/ EvalExec
    \/ EvalRender
    \/ EvalReturn

Spec == Init /\ [][Next]_vars

\* create_engine_state is called a second time, at the start or after the
\* first state has been evaluated against; the first state lives on beside
\* the new one
BootAgain ==
    /\ pc \in { "boot_done", "idle" }
    /\ first_state.present
    /\ ~first_state.again
    /\ first_state' = [ first_state EXCEPT !.again = TRUE,
                                           !.evolved = engine_state ]
    /\ stderr_log' = << >>
    /\ pc' = "boot_new"
    /\ UNCHANGED << env, target_os, feat_plugin, feat_which, engine_state,
                    working_set, bind_idx, delta, stack, call, block,
                    pipeline_data, ret, trace, pre_state, evals >>

\* the registry bootstrap alone, under every build, run up to twice
NextBoot ==
    \/ BootNew
    \/ BootBind
    \/ BootRender
    \/ BootMerge
    \/ BootAgain

SpecBoot == InitBoot /\ [][NextBoot]_vars

\* main, and then a second create_engine_state call made at any point at
\* which main is between two calls; the second state is not evaluated
\* against; explored with every cfg gate on and with every cfg gate off
RebootBuilds ==
    { [ os |-> "linux", plugin |-> TRUE,  which |-> TRUE  ],
      [ os |-> "wasi",  plugin |-> FALSE, which |-> FALSE ] }

InitReboot == Start(RebootBuilds, PipelineEnvs)

NextReboot ==
    \/ BootNew
    \/ BootBind
    \/ BootRender
    \/ BootMerge
    \/ BootAgain
    \/ (CreateStack /\ ~first_state.again)
    \/ EvalCall
    \/ EvalParse
    \/ EvalCheck
    \/ EvalMerge
    \/ EvalExec
    \/ EvalRender
    \/ EvalReturn

SpecReboot == InitReboot /\ [][NextReboot]_vars

\* main up to create_stack, under every process environment
DefaultBuild == { [ os |-> "linux", plugin |-> TRUE, which |-> TRUE ] }

InitStack == Start(DefaultBuild, Envs)

NextStack ==
    \/ BootNew
    \/ BootBind
    \/ BootRender
    \/ BootMerge
    \/ CreateStack

SpecStack == InitStack /\ [][NextStack]_vars

(***************************************************************************)
(* Properties                                                              *)
(***************************************************************************)
TraceHas(fn) == \E i \in 1..Len(trace) : trace[i].fn = fn

TraceFailed(fn) == \E i \in 1..Len(trace) : trace[i].fn = fn /\ ~trace[i].ok

TraceDid(fn) == \E i \in 1..Len(trace) : trace[i].fn = fn /\ trace[i].ok

ExitCodeIs(st, code) ==
    HasEnv(st, "LAST_EXIT_CODE") /\ st["LAST_EXIT_CODE"] = code

Reported(kind) ==
    /\ TraceHas("report_error")
    /\ Len(stderr_log) > 0
    /\ stderr_log[Len(stderr_log)].kind = kind

\* the parse errors a source has against a given state
ParseErrorsOf(es, source) ==
    parse(StateWorkingSetNew(es), source).ws.parse_errors

\* the declarations a source adds to its working set
DeclaredBy(es, source) == parse(StateWorkingSetNew(es), source).ws.decls

\* the process ended in the panic of eprintln! on a failed stderr write
StderrPanicked ==
    pc = "panicked" /\ (TraceFailed("report_error") \/ TraceFailed("eprintln"))

\* an eval_source call is past its parse step
PastParse ==
    call.active /\ pc \in { "eval_merge", "eval_exec", "eval_render",
                            "eval_done", "panicked" }

\* C1 (as claimed): a source with a parse error makes eval_source return false with
\* LAST_EXIT_CODE = 1, the engine state exactly as it was before the call,
\* no merge attempted and the block never executed.
C1_ParseErrorLeavesStateUntouched ==
    (PastParse /\ Len(ParseErrorsOf(pre_state, call.source)) > 0) =>
        /\ pc = "eval_done"
        /\ ret = "false"
        /\ ExitCodeIs(stack, 1)
        /\ engine_state = pre_state
        /\ ~TraceHas("merge_delta")
        /\ ~TraceHas("eval_block")

\* statement j of the source calls a command that statement i declared
DeclaresThenCalls(source, i, j) ==
    /\ i < j
    /\ source[i].op = "def"
    /\ source[j].op = "call"
    /\ source[j].name = source[i].name

\* the delta of the call in progress has been merged successfully
Merged == PastParse /\ TraceDid("merge_delta")

\* in a valid source that declares a command and then calls it, the call
\* resolves to the declaration made in this very parse and the declaration
\* is in the engine state before the block runs; a call of a command the
\* state already held resolves to that declaration
C2_VisibleInSameEvaluation ==
    (PastParse /\ Len(ParseErrorsOf(pre_state, call.source)) = 0) =>
        /\ Len(block) = Len(call.source)
        /\ \A i, j \in 1..Len(call.source) :
              DeclaresThenCalls(call.source, i, j) =>
                  /\ block[j].kind = "call"
                  /\ block[j].decl_id >= Len(pre_state.decls)
                  /\ Merged =>
                        /\ pc = "panicked" => StderrPanicked
                        /\ block[j].decl_id < Len(engine_state.decls)
                        /\ get_decl(engine_state, block[j].decl_id)
                              = call.source[j].name
                        /\ HasDecl(engine_state, call.source[j].name)
                        /\ find_decl(engine_state, call.source[j].name)
                              >= Len(pre_state.decls)
        /\ \A j \in 1..Len(call.source) :
              (/\ call.source[j].op = "call"
               /\ HasDecl(pre_state, call.source[j].name)
               /\ ~\E i \in 1..Len(call.source) :
                      DeclaresThenCalls(call.source, i, j)) =>
                  /\ block[j].kind = "call"
                  /\ block[j].decl_id
                        = find_decl(pre_state, call.source[j].name)
                  /\ block[j].decl_id < Len(engine_state.decls)
                  /\ get_decl(engine_state, block[j].decl_id)
                        = call.source[j].name

\* a name bound in the engine state stays bound, step after step
C2_StaysDeclared ==
    \A n \in UserCommands :
        HasDecl(engine_state, n) => HasDecl(engine_state', n)

\* C2: in a valid source that declares a command and then calls it, the
\* declaration is visible in the same evaluation (the parse resolves the
\* call to it and it is merged before the block runs), and once merged it
\* is in the engine state for every later evaluation.
C2_DeclarationVisibleAndPersistent ==
    []C2_VisibleInSameEvaluation /\ [][C2_StaysDeclared]_vars

\* a second evaluation that finds the command an earlier one declared,
\* declares it again and calls the new declaration
C2_Witness ==
    /\ pc = "eval_done"
    /\ ret = "true"
    /\ evals = 2
    /\ Len(call.source) = 2
    /\ DeclaresThenCalls(call.source, 1, 2)
    /\ HasDecl(pre_state, call.source[1].name)
    /\ block[2].decl_id > find_decl(pre_state, call.source[1].name)
    /\ find_decl(engine_state, call.source[1].name) = block[2].decl_id

\* the rendering step of the call in progress returned an error
RenderFailed == TraceFailed("print") \/ TraceFailed("print_if_stream")

\* C3 (as claimed): when rendering the result fails, eval_source sets
\* LAST_EXIT_CODE to 1, reports the error and returns false.
C3_RenderErrorSetsExitCode ==
    (pc = "eval_done" /\ RenderFailed) =>
        /\ ExitCodeIs(stack, 1)
        /\ Reported("RenderError")
        /\ ret = "false"

\* C4 (as claimed): when executing the block fails, eval_source sets LAST_EXIT_CODE to
\* 1, reports the error, returns false and renders nothing.
C4_ExecErrorSetsExitCode ==
    (call.active /\ TraceFailed("eval_block")) =>
        /\ pc = "eval_done"
        /\ ExitCodeIs(stack, 1)
        /\ Reported("EvalError")
        /\ ret = "false"
        /\ ~TraceHas("print")
        /\ ~TraceHas("print_if_stream")
        /\ pipeline_data = NoPipelineData

\* parse, merge, execution and rendering of the call all succeeded
AllSucceeded ==
    /\ TraceDid("parse")
    /\ TraceDid("merge_delta")
    /\ TraceDid("eval_block")
    /\ TraceDid("print") \/ TraceDid("print_if_stream")

\* the exit code a result resolves to when it is rendered
ResolvedExitCode(pd) ==
    IF pd.kind = "ExternalStream" /\ pd.exit_code # None
    THEN pd.exit_code[1] ELSE 0

\* C5: when every stage succeeds, LAST_EXIT_CODE on return is the exit
\* code the rendering resolved: the stream's deferred code for an external
\* stream, 0 for a plain value.
C5_ExitCodeStoredOnSuccess ==
    (pc = "eval_done" /\ AllSucceeded) =>
        /\ ret = "true"
        /\ ExitCodeIs(stack, ResolvedExitCode(pipeline_data))
        /\ pipeline_data.kind # "ExternalStream" => ExitCodeIs(stack, 0)

\* a successful evaluation of an external stream that ended with code 3
C5_Witness ==
    /\ pc = "eval_done"
    /\ AllSucceeded
    /\ pipeline_data.kind = "ExternalStream"
    /\ pipeline_data.exit_code = Some(3)
    /\ ExitCodeIs(stack, 3)

\* C6 (as claimed): when merge_delta fails inside eval_source, the evaluation sets
\* LAST_EXIT_CODE to 1, reports the fault, returns false and never runs the
\* block.
C6_MergeFaultAborts ==
    (call.active /\ TraceFailed("merge_delta")) =>
        /\ pc = "eval_done"
        /\ ExitCodeIs(stack, 1)
        /\ Reported("MergeFault")
        /\ ret = "false"
        /\ ~TraceHas("eval_block")

\* the positions at which a command occurs in a sequence of registrations
Occurrences(seq, command) == { i \in 1..Len(seq) : seq[i] = command }

Duplicated(seq) ==
    { c \in SeqRange(seq) : Cardinality(Occurrences(seq, c)) > 1 }

Max(S) == CHOOSE x \in S : \A y \in S : y <= x

\* create_default_context has returned and its merge did not fault
BootSucceeded == pc = "boot_done" /\ TraceDid("merge_delta")

\* C7: the catalog registers Touch, Upsert and Where twice (again in the
\* Formats block); no registration is rejected, and in the bootstrapped
\* state each of these names resolves to its last registration.
C7_LastRegistrationWins ==
    /\ pc = "boot_merge" => delta.decls = TheCatalog
    /\ BootSucceeded =>
          /\ Duplicated(TheCatalog) = { "Touch", "Upsert", "Where" }
          /\ engine_state.decls = TheCatalog
          /\ \A c \in Duplicated(TheCatalog) :
                /\ Cardinality(Occurrences(TheCatalog, c)) = 2
                /\ c \in SeqRange(FormatsCommands)
                /\ HasDecl(engine_state, c)
                /\ find_decl(engine_state, c)
                      = Max(Occurrences(TheCatalog, c)) - 1
                /\ get_decl(engine_state, find_decl(engine_state, c)) = c

\* a bootstrapped state holding both registrations of Touch, the name
\* bound to the later one
C7_Witness ==
    /\ BootSucceeded
    /\ Cardinality(Occurrences(engine_state.decls, "Touch")) = 2
    /\ \E i \in Occurrences(engine_state.decls, "Touch") :
          i - 1 < find_decl(engine_state, "Touch")

\* C8: nothing is in the engine state before the bootstrap's single merge,
\* and after a merge that succeeds the names bound in the state are exactly
\* the registrations of this build: Exec only on Unix, RegistryQuery only
\* on Windows, Register only with the plugin feature, Which only with
\* which-support, and every name resolves to a command of that name.
C8_ExactlyTheCatalog ==
    /\ pc \in { "boot_bind", "boot_merge" } => engine_state = EngineStateNew
    /\ BootSucceeded =>
          /\ DeclNames(engine_state) = SeqRange(TheCatalog)
          /\ "Exec" \in DeclNames(engine_state) <=> CfgUnix(target_os)
          /\ "RegistryQuery" \in DeclNames(engine_state)
                <=> CfgWindows(target_os)
          /\ "Register" \in DeclNames(engine_state) <=> feat_plugin
          /\ "Which" \in DeclNames(engine_state) <=> feat_which
          /\ \A c \in DeclNames(engine_state) :
                /\ find_decl(engine_state, c) < Len(engine_state.decls)
                /\ get_decl(engine_state, find_decl(engine_state, c)) = c

\* a FreeBSD build without the plugin feature, bootstrapped
C8_Witness ==
    /\ BootSucceeded
    /\ target_os = "freebsd"
    /\ ~feat_plugin
    /\ "Exec" \in DeclNames(engine_state)
    /\ "Ps" \notin DeclNames(engine_state)
    /\ "RegistryQuery" \notin DeclNames(engine_state)
    /\ "Register" \notin DeclNames(engine_state)
    /\ "Alias" \in DeclNames(engine_state)

\* the bootstrap's merge faulted
BootFaulted == Len(stderr_log) > 0 /\ stderr_log[1].kind = "BootMergeFault"

\* a stage of the operation returned Err; the discarded result of the
\* terminal hook is not one of them
StageFailed ==
    \E i \in 1..Len(trace) :
        ~trace[i].ok /\ trace[i].fn # "enable_vt_processing"

\* C9 (as claimed): a merge fault in the bootstrap is reported and
\* create_default_context still returns the state, holding the
\* registrations committed before the fault, and evaluation goes on from
\* it; inside eval_source every error, a merge fault included, ends the
\* call with false.
C9_BootFaultTolerated ==
    /\ (~call.active /\ TraceFailed("merge_delta")) =>
          /\ pc \in { "boot_done", "idle" }
          /\ BootFaulted
          /\ \E k \in 0..Len(TheCatalog) :
                engine_state.decls = Prefix(TheCatalog, k)
    /\ BootFaulted => pc \notin { "boot_failed", "boot_merge" }
    /\ (call.active /\ StageFailed) =>
          /\ pc = "eval_done"
          /\ ret = "false"
          /\ ~trace[Len(trace)].ok \/ trace[Len(trace)].fn
                \in { "report_error", "enable_vt_processing" }

\* the second create_default_context call has returned after a successful
\* merge, and so had the first
BothBootstrapped ==
    /\ BootSucceeded
    /\ first_state.present
    /\ first_state.again
    /\ first_state.ok

IsSet(source) == source # None

\* C11 (as claimed): create_stack gives PWD a string taken, in strict order,
\* from the current directory if it can be queried, else the PWD variable
\* if it is set, else the home directory, else the empty path.
C11_PwdFallbackOrder ==
    pc = "idle" =>
        /\ HasEnv(stack, "PWD")
        /\ IsSet(env.current_dir) =>
              stack["PWD"] = to_string_lossy(env.current_dir[1])
        /\ (~IsSet(env.current_dir) /\ IsSet(env.pwd_var)) =>
              stack["PWD"] = to_string_lossy(env.pwd_var[1])
        /\ (~IsSet(env.current_dir) /\ ~IsSet(env.pwd_var)
              /\ IsSet(env.home_dir)) =>
              stack["PWD"] = to_string_lossy(env.home_dir[1])
        /\ (~IsSet(env.current_dir) /\ ~IsSet(env.pwd_var)
              /\ ~IsSet(env.home_dir)) =>
              stack["PWD"] = << >>

\* how many times a function was called in the current evaluation
Count(fn) == Cardinality({ i \in 1..Len(trace) : trace[i].fn = fn })

Printers == { "print", "print_if_stream" }

\* the position of a call in the order parse, merge, execute, report
StageRank(fn) ==
    CASE fn = "parse" -> 1
      [] fn = "render" -> 2
      [] fn = "merge_delta" -> 3
      [] fn = "eval_block" -> 4
      [] fn \in Printers -> 5
      [] OTHER -> 0

IsStage(fn) == StageRank(fn) > 0

\* nothing but diagnostics and the terminal hook follows the last write
WriteIsLastStateChange ==
    \A i \in 1..Len(trace) :
        trace[i].fn = "set_last_exit_code" =>
            \A j \in (i + 1)..Len(trace) :
                trace[j].fn \in { "report_error", "enable_vt_processing" }

\* C13 (as claimed): within one evaluation parse, merge, execute and report
\* happen in that order and at most once each, the block is run only after
\* a successful merge, the result is printed only after a successful
\* execution, and when the evaluation ends LAST_EXIT_CODE has been written
\* exactly once, as its last state change.
C13_StagesInOrderOneExitCodeWrite ==
    call.active =>
        /\ \A i, j \in 1..Len(trace) :
              (i < j /\ IsStage(trace[i].fn) /\ IsStage(trace[j].fn)) =>
                  StageRank(trace[i].fn) < StageRank(trace[j].fn)
        /\ TraceHas("eval_block") => TraceDid("merge_delta")
        /\ (TraceHas("print") \/ TraceHas("print_if_stream")) =>
              TraceDid("eval_block")
        /\ pc = "eval_done" =>
              /\ Count("set_last_exit_code") = 1
              /\ WriteIsLastStateChange

\* an open working set still sees, as the engine state, the state it
\* borrowed
WorkingSetIsolated ==
    working_set.open => working_set.permanent_state = engine_state

\* no step taken while a working set is open changes the engine state
C14_UnchangedWhileOpen ==
    working_set.open => engine_state' = engine_state

\* the engine state changes only in a merge step, of a rendered delta
C14_OnlyMergeChanges ==
    engine_state' # engine_state =>
        /\ pc \in { "boot_merge", "eval_merge" }
        /\ delta.rendered
        /\ ~working_set.open

\* C14: from the creation of a working set until it is rendered or dropped
\* the engine state is unchanged, what the parser declares lives in the
\* working set only, and only the merge of the rendered delta changes the
\* engine state.
C14_WorkingSetIsolation ==
    /\ []WorkingSetIsolated
    /\ [][C14_UnchangedWhileOpen]_vars
    /\ [][C14_OnlyMergeChanges]_vars

\* a parsed source has declared a command that the engine state lacks
C14_Witness ==
    /\ pc = "eval_parsed"
    /\ working_set.open
    /\ WsHasDecl(working_set, "greet")
    /\ ~HasDecl(engine_state, "greet")
    /\ engine_state = pre_state

IsPrefixOf(s, t) ==
    Len(s) <= Len(t) /\ \A i \in 1..Len(s) : s[i] = t[i]

\* every declaration, name, block and variable of `before` is in `after`
GrewFrom(before, after) ==
    /\ IsPrefixOf(before.decls, after.decls)
    /\ DeclNames(before) \subseteq DeclNames(after)
    /\ IsPrefixOf(before.blocks, after.blocks)
    /\ IsPrefixOf(before.vars, after.vars)

C15_StepGrows ==
    engine_state' = engine_state \/ GrewFrom(engine_state, engine_state')

C15_CallGrows == call.active => GrewFrom(pre_state, engine_state)

\* C15: over any sequence of the bootstrap and eval_source calls on one
\* engine state nothing is removed: each step, and so each call whatever
\* its outcome, leaves every declaration, name, block and variable that was
\* there before.
C15_StateOnlyGrows ==
    /\ []C15_CallGrows
    /\ [][C15_StepGrows]_vars

\* a second evaluation ended in a parse error and the command declared by
\* the first is still there
C15_Witness ==
    /\ pc = "eval_done"
    /\ TraceFailed("parse")
    /\ evals = MaxEvals
    /\ HasDecl(pre_state, "greet")
    /\ HasDecl(engine_state, "greet")

\* when the delta is about to be merged the engine state is the one the
\* working set was opened against (the part of C16 that eval_source itself
\* decides; whether merge_delta can then fail is the library's matter)
MergeAgainstSnapshot ==
    pc \in { "eval_parsed", "eval_merge" } => engine_state = pre_state

\* C17: an evaluation that returns false has reported exactly one
\* diagnostic, one that returns true has reported none, no failed stage
\* goes unreported, and of several parse errors the first is the one
\* reported.
C17_OneDiagnosticPerFailure ==
    (call.active /\ pc = "eval_done") =>
        /\ ret = "false" =>
              Len(stderr_log) = 1 /\ Count("report_error") = 1
        /\ ret = "true" =>
              Len(stderr_log) = 0 /\ Count("report_error") = 0
        /\ StageFailed => Len(stderr_log) = 1
        /\ TraceFailed("parse") =>
              /\ Len(stderr_log) = 1
              /\ Len(ParseErrorsOf(pre_state, call.source)) > 0
              /\ stderr_log[1] = ParseErrorsOf(pre_state, call.source)[1]

\* a source with two parse errors was evaluated
C17_Witness ==
    /\ pc = "eval_done"
    /\ ret = "false"
    /\ TraceFailed("parse")
    /\ Len(ParseErrorsOf(pre_state, call.source)) > 1
    /\ Len(stderr_log) = 1

\* C18 (as claimed): on a Windows build evaluations run, and every path
\* of one, the four error paths and the success path, ends with one call
\* of the terminal hook, whose outcome changes neither the return value
\* nor the exit code.
C18_TerminalHookOnEveryPath ==
    CfgWindows(target_os) =>
        /\ pc # "no_program"
        /\ (call.active /\ pc = "eval_done") =>
              /\ Count("enable_vt_processing") = 1
              /\ trace[Len(trace)].fn = "enable_vt_processing"
              /\ ret = (IF StageFailed THEN "false" ELSE "true")
              /\ (StageFailed /\ ~RenderFailed) => ExitCodeIs(stack, 1)
              /\ ~StageFailed =>
                    ExitCodeIs(stack, ResolvedExitCode(pipeline_data))

\* C19: eval_source returns true exactly when parse, merge, execution and
\* rendering all succeeded, whatever exit code the rendering resolved; the
\* code is stored as it is, so true does not mean LAST_EXIT_CODE = 0.
C19_TrueIffAllStagesSucceeded ==
    (call.active /\ pc = "eval_done") =>
        /\ ret \in { "true", "false" }
        /\ ret = "true" <=> AllSucceeded
        /\ ret = "true" <=> ~StageFailed
        /\ AllSucceeded =>
              ExitCodeIs(stack, ResolvedExitCode(pipeline_data))

\* an external process that ended with code 3: true is returned and
\* LAST_EXIT_CODE is 3
C19_Witness ==
    /\ pc = "eval_done"
    /\ ret = "true"
    /\ pipeline_data.kind = "ExternalStream"
    /\ ResolvedExitCode(pipeline_data) = 3
    /\ ExitCodeIs(stack, 3)

RunTimeFailed == TraceFailed("eval_block") \/ RenderFailed

\* the state holds what it held before the call plus all the source declared
DeltaMerged ==
    /\ engine_state.decls
          = pre_state.decls \o DeclaredBy(pre_state, call.source)
    /\ \A i \in 1..Len(DeclaredBy(pre_state, call.source)) :
          HasDecl(engine_state, DeclaredBy(pre_state, call.source)[i])

C20_AtReturn ==
    (call.active /\ pc = "eval_done") =>
        /\ RunTimeFailed => (ret = "false" /\ DeltaMerged)
        /\ (RunTimeFailed /\ Len(DeclaredBy(pre_state, call.source)) > 0) =>
              engine_state # pre_state
        /\ TraceFailed("parse") => (ret = "false" /\ engine_state = pre_state)

\* returning from eval_source restores nothing
C20_NoRollback == pc = "eval_done" => engine_state' = engine_state

\* C20: a false return does not mean an unchanged engine state: after an
\* execution error or a render error the delta is merged and stays merged
\* for the evaluations that follow, while after a parse error the state is
\* the one before the call.
C20_FailureKeepsMergedDelta ==
    /\ []C20_AtReturn
    /\ [][C20_NoRollback]_vars

\* the block of a source that declared greet failed: false is returned
\* and greet is in the engine state
C20_Witness ==
    /\ pc = "eval_done"
    /\ ret = "false"
    /\ TraceFailed("eval_block")
    /\ ~HasDecl(pre_state, "greet")
    /\ HasDecl(engine_state, "greet")
    /\ engine_state # pre_state

=============================================================================
